---- MODULE Spec2Model ----
(***************************************************************************)
(* A model of ytls.py: the pickle-backed cache (Cachable), the time-bucket *)
(* cache keys of get_videos, ChannelUploads.get, ViewHistory and Actions.  *)
(***************************************************************************)
EXTENDS Integers, Sequences, FiniteSets, TLC

VARIABLES
    now,        \* wall clock read by strftime: [Y, m, d, H, M]
    prev,       \* the bucket key computed before the last one (or NoStamp)
    cur,        \* the bucket key computed last (or NoStamp)
    disk,       \* the cache directory: file name -> bytes, for the files that exist
    apiKey,     \* whether the file API_KEY exists
    call,       \* the last call made, what it found and what it returned or raised
    written,    \* history: file name -> the record last saved there, undamaged since
    views,      \* VIEWS.views, the set ViewHistory holds in memory
    ever,       \* history: the video ids that were ever in the persisted view set
    VIDEOS,     \* the list the prompt works on
    pc          \* the process: "start", "repl" (at the prompt) or "dead"

bucketVars == <<prev, cur>>
viewVars == <<views, ever>>
replVars == <<VIDEOS, pc>>
vars == <<now, prev, cur, disk, apiKey, call, written, views, ever, VIDEOS, pc>>

(***************************************************************************)
(* The calendar behind time.strftime.                                      *)
(***************************************************************************)
IsLeap(y) == (y % 4 = 0 /\ y % 100 # 0) \/ y % 400 = 0

DaysInMonth(y, m) ==
    IF m = 2 THEN (IF IsLeap(y) THEN 29 ELSE 28)
    ELSE IF m \in {4, 6, 9, 11} THEN 30 ELSE 31

RECURSIVE DaysBeforeMonth(_, _)
DaysBeforeMonth(y, m) ==
    IF m = 1 THEN 0 ELSE DaysBeforeMonth(y, m - 1) + DaysInMonth(y, m - 1)

\* tm_yday, counted from 0
YearDay(t) == DaysBeforeMonth(t.Y, t.m) + t.d - 1

\* proleptic Gregorian ordinal: 0001-01-01 is day 1, a Monday
Ordinal(t) ==
    LET p == t.Y - 1
    IN  365 * p + (p \div 4) - (p \div 100) + (p \div 400) + YearDay(t) + 1

\* tm_wday, Sunday = 0
WeekDay(t) == Ordinal(t) % 7

\* %U: week of the year, Sunday first; days before the first Sunday are week 0
WeekOfYear(t) == (YearDay(t) + 7 - WeekDay(t)) \div 7

Digit(n) ==
    CASE n = 0 -> "0" [] n = 1 -> "1" [] n = 2 -> "2" [] n = 3 -> "3"
      [] n = 4 -> "4" [] n = 5 -> "5" [] n = 6 -> "6" [] n = 7 -> "7"
      [] n = 8 -> "8" [] n = 9 -> "9"

\* str(int): decimal without padding
RECURSIVE str(_)
str(n) == IF n < 10 THEN Digit(n) ELSE str(n \div 10) \o Digit(n % 10)

\* zero-padded decimal fields of strftime
Pad2(n) == Digit((n \div 10) % 10) \o Digit(n % 10)
Pad4(n) == Pad2(n \div 100) \o Pad2(n % 100)

\* strftime(fmt) for the format strings get_videos uses
strftime(fmt, t) ==
    CASE fmt = "%Y%m%d%H" -> Pad4(t.Y) \o Pad2(t.m) \o Pad2(t.d) \o Pad2(t.H)
      [] fmt = "%Y%m%d"   -> Pad4(t.Y) \o Pad2(t.m) \o Pad2(t.d)
      [] fmt = "%Y%m%U"   -> Pad4(t.Y) \o Pad2(t.m) \o Pad2(WeekOfYear(t))
      [] fmt = "%Y%m"     -> Pad4(t.Y) \o Pad2(t.m)
      [] fmt = "%Y"       -> Pad4(t.Y)
      [] fmt = "%H"       -> Pad2(t.H)

\* get_videos: the dict lookup with its default, the four-hour slot
timestamp(cl, t) ==
    CASE cl = "h" -> strftime("%Y%m%d%H", t)
      [] cl = "d" -> strftime("%Y%m%d", t)
      [] cl = "w" -> strftime("%Y%m%U", t)
      [] cl = "m" -> strftime("%Y%m", t)
      [] cl = "y" -> strftime("%Y", t)
      [] OTHER    -> strftime("%Y%m%d", t) \o str(t.H \div 4)

\* str.ljust(width, fill)
RECURSIVE ljust(_, _, _)
ljust(s, width, fill) ==
    IF Len(s) >= width THEN s ELSE ljust(s \o fill, width, fill)

\* ChannelUploads.__init__: the cache file name
ChannelUploads_cache_name(channel_id, stamp) ==
    channel_id \o "." \o ljust(stamp, 10, "0") \o ".pkl"

(***************************************************************************)
(* The wall-clock times sampled.                                           *)
(***************************************************************************)
Dates ==
    { <<2023, 12, 31>>, <<2024, 1, 1>>, <<2024, 1, 6>>, <<2024, 1, 7>>,
      <<2024, 1, 31>>, <<2024, 2, 1>> }

DayTimes == { <<0, 0>>, <<0, 59>>, <<3, 59>>, <<4, 0>>, <<10, 0>> }

Times ==
    { [Y |-> dt[1], m |-> dt[2], d |-> dt[3], H |-> hm[1], M |-> hm[2]] :
        dt \in Dates, hm \in DayTimes }

\* minutes since the start of year 1, to order wall-clock times
Minutes(t) == (Ordinal(t) * 24 + t.H) * 60 + t.M

Granularities == {"h", "d", "w", "m", "y", ""}

NoStamp == [cl |-> "none"]

Stamp(cl, t) ==
    [cl |-> cl, at |-> t, key |-> timestamp(cl, t),
     file |-> ChannelUploads_cache_name("UCx", timestamp(cl, t))]

(***************************************************************************)
(* Python values: every value is a record with a type field.               *)
(***************************************************************************)
PyNone == [type |-> "None"]
PyStr(s) == [type |-> "str", s |-> s]
PyList(seq) == [type |-> "list", seq |-> seq]
PySet(elems) == [type |-> "set", elems |-> elems]
\* a dict is its set of items; keys are unique
PyDict(items) == [type |-> "dict", items |-> items]

\* bool(v) is False
Falsy(v) ==
    \/ v.type = "None"
    \/ v.type = "str" /\ v.s = ""
    \/ v.type = "list" /\ v.seq = <<>>
    \/ v.type = "set" /\ v.elems = {}
    \/ v.type = "dict" /\ v.items = {}

Hashable(v) == v.type \in {"None", "str"}

\* dict.__setitem__
DictSet(items, k, v) == {it \in items : it.k # k} \cup {[k |-> k, v |-> v]}

(***************************************************************************)
(* pickle.  A file is a sequence of tokens: opcodes, string atoms (a       *)
(* SHORT_BINUNICODE with its text) and JUNK, a byte that is no opcode.      *)
(***************************************************************************)
Atoms == {"a", "b"}

Opcodes ==
    { "PROTO", "NONE", "EMPTY_LIST", "EMPTY_SET", "EMPTY_DICT", "MARK",
      "APPENDS", "ADDITEMS", "SETITEMS", "STOP" }

Tokens == Opcodes \cup Atoms \cup {"JUNK"}

RECURSIVE SeqOfSet(_)
SeqOfSet(S) ==
    IF S = {} THEN <<>>
    ELSE LET x == CHOOSE y \in S : TRUE IN <<x>> \o SeqOfSet(S \ {x})

RECURSIVE Flatten(_)
Flatten(ss) == IF ss = <<>> THEN <<>> ELSE Head(ss) \o Flatten(Tail(ss))

RECURSIVE save(_)
\* pickle's save(obj): the opcodes that rebuild obj on the unpickler's stack
save(v) ==
    CASE v.type = "None" -> <<"NONE">>
      [] v.type = "str"  -> <<v.s>>
      [] v.type = "list" ->
            <<"EMPTY_LIST">> \o
            (IF v.seq = <<>> THEN <<>>
             ELSE <<"MARK">> \o Flatten([i \in 1..Len(v.seq) |-> save(v.seq[i])])
                    \o <<"APPENDS">>)
      [] v.type = "set"  ->
            <<"EMPTY_SET">> \o
            (IF v.elems = {} THEN <<>>
             ELSE LET es == SeqOfSet(v.elems)
                  IN  <<"MARK">> \o Flatten([i \in 1..Len(es) |-> save(es[i])])
                        \o <<"ADDITEMS">>)
      [] v.type = "dict" ->
            <<"EMPTY_DICT">> \o
            (IF v.items = {} THEN <<>>
             ELSE LET es == SeqOfSet(v.items)
                  IN  <<"MARK">> \o
                      Flatten([i \in 1..Len(es) |-> save(es[i].k) \o save(es[i].v)])
                        \o <<"SETITEMS">>)

\* pickle.dump(obj, file): the bytes written
dump(v) == <<"PROTO">> \o save(v) \o <<"STOP">>

Mark == [type |-> "mark"]
Raise(e) == [exc |-> e, val |-> PyNone]
Return(v) == [exc |-> "none", val |-> v]

\* index of the topmost MARK on the stack, 0 if there is none
RECURSIVE TopMark(_, _)
TopMark(stack, i) ==
    IF i = 0 THEN 0
    ELSE IF stack[i].type = "mark" THEN i ELSE TopMark(stack, i - 1)

RECURSIVE PairUp(_, _)
\* dict items from k1, v1, k2, v2, ... applied in order
PairUp(items, kvs) ==
    IF kvs = <<>> THEN items
    ELSE PairUp(DictSet(items, kvs[1], kvs[2]), SubSeq(kvs, 3, Len(kvs)))

RECURSIVE Unpickle(_, _, _)
\* the unpickler's loop over the opcodes from position i with the given stack
Unpickle(b, i, stack) ==
    IF i > Len(b) THEN Raise("EOFError")
    ELSE
    LET op == b[i]
        n == Len(stack)
        k == TopMark(stack, n)
        above == SubSeq(stack, k + 1, n)
        below == SubSeq(stack, 1, k - 2)
        push(v) == Unpickle(b, i + 1, Append(stack, v))
    IN
    CASE op = "PROTO"      -> Unpickle(b, i + 1, stack)
      [] op = "NONE"       -> push(PyNone)
      [] op \notin Opcodes \cup {"JUNK"} -> push(PyStr(op))
      [] op = "EMPTY_LIST" -> push(PyList(<<>>))
      [] op = "EMPTY_SET"  -> push(PySet({}))
      [] op = "EMPTY_DICT" -> push(PyDict({}))
      [] op = "MARK"       -> push(Mark)
      [] op = "APPENDS" ->
            IF k = 0 THEN Raise("UnpicklingError")
            ELSE IF k = 1 \/ stack[k - 1].type = "mark" THEN Raise("UnpicklingError")
            ELSE IF above = <<>> THEN Unpickle(b, i + 1, SubSeq(stack, 1, k - 1))
            ELSE IF stack[k - 1].type # "list" THEN Raise("AttributeError")
            ELSE Unpickle(b, i + 1,
                    Append(below, PyList(stack[k - 1].seq \o above)))
      [] op = "ADDITEMS" ->
            IF k = 0 THEN Raise("UnpicklingError")
            ELSE IF k = 1 \/ stack[k - 1].type = "mark" THEN Raise("UnpicklingError")
            ELSE IF above = <<>> THEN Unpickle(b, i + 1, SubSeq(stack, 1, k - 1))
            ELSE IF stack[k - 1].type # "set" THEN Raise("AttributeError")
            ELSE IF \E j \in 1..Len(above) : ~Hashable(above[j])
                 THEN Raise("TypeError")
            ELSE Unpickle(b, i + 1,
                    Append(below, PySet(stack[k - 1].elems \cup
                                        {above[j] : j \in 1..Len(above)})))
      [] op = "SETITEMS" ->
            IF k = 0 THEN Raise("UnpicklingError")
            ELSE IF k = 1 \/ stack[k - 1].type = "mark" THEN Raise("UnpicklingError")
            ELSE IF above = <<>> THEN Unpickle(b, i + 1, SubSeq(stack, 1, k - 1))
            ELSE IF Len(above) % 2 # 0 THEN Raise("UnpicklingError")
            ELSE IF stack[k - 1].type # "dict" THEN Raise("TypeError")
            ELSE IF \E j \in 1..Len(above) : j % 2 = 1 /\ ~Hashable(above[j])
                 THEN Raise("TypeError")
            ELSE Unpickle(b, i + 1,
                    Append(below, PyDict(PairUp(stack[k - 1].items, above))))
      [] op = "STOP" ->
            IF n = 0 \/ stack[n].type = "mark" THEN Raise("UnpicklingError")
            ELSE Return(stack[n])
      [] OTHER -> Raise("UnpicklingError")

\* pickle.load(file)
load(b) == Unpickle(b, 1, <<>>)

(***************************************************************************)
(* Cachable                                                                *)
(***************************************************************************)
isfile(d, cache_name) == cache_name \in DOMAIN d

\* open(cache_path, 'wb') and the write: the file is created or replaced
WriteFile(d, cache_name, bytes) ==
    [n \in DOMAIN d \cup {cache_name} |-> IF n = cache_name THEN bytes ELSE d[n]]

\* Cachable.load_cache: what it returns or raises, given the directory
load_cache(d, cache_name, default) ==
    CHOOSE o \in
      { IF r.exc \notin {"none", "EOFError"} THEN Raise(r.exc)
        ELSE IF r.exc = "EOFError" \/ r.val = PyNone THEN Return(default)
        ELSE Return(r.val)
        : r \in {IF isfile(d, cache_name) THEN load(d[cache_name])
                 ELSE Return(PyNone)} } : TRUE

\* save_cache testing the data for truth instead of for None
save_cache_truthy(d, cache_name, data) ==
    IF ~Falsy(data) THEN WriteFile(d, cache_name, dump(data)) ELSE d

\* Cachable.save_cache: the directory afterwards
save_cache(d, cache_name, data) ==
    IF data # PyNone THEN WriteFile(d, cache_name, dump(data)) ELSE d

(***************************************************************************)
(* The cache store on its own: saves, loads, and damage to a file from     *)
(* outside (a crash in the middle of a write, a truncation, stray bytes).  *)
(***************************************************************************)
MaxItems == 2

SeqsUpTo(S, n) == UNION {[1..m -> S] : m \in 0..n}

StrAtoms == {PyStr(a) : a \in Atoms}

Records ==
    {PyList(q) : q \in SeqsUpTo(StrAtoms, MaxItems)}
    \cup {PySet(S) : S \in SUBSET StrAtoms}
    \cup {PyDict({[k |-> PyStr(x), v |-> PyStr(f[x])] : x \in DOMAIN f}) :
            f \in UNION {[D -> Atoms] : D \in SUBSET Atoms}}

StoreNames == {"channel_ids.pkl", "view_history.pkl"}

Defaults == {PyNone, PyList(<<>>), PySet({})}

NoCall == [op |-> "none"]

\* what a damaged file can hold: a proper prefix of what it held (the empty
\* file included), or what it held with one token overwritten
Damaged(bytes) ==
    ({SubSeq(bytes, 1, n) : n \in 0..(Len(bytes) - 1)}
     \cup {[bytes EXCEPT ![i] = tok] : i \in 1..Len(bytes), tok \in Tokens})
    \ {bytes}

\* the files with none of their history left are dropped from the history
Forget(w, name) == [n \in DOMAIN w \ {name} |-> w[n]]

\* nothing has run yet: an empty cache directory, the credential in place
Idle ==
    /\ prev = NoStamp
    /\ cur = NoStamp
    /\ disk = <<>>
    /\ apiKey = TRUE
    /\ call = NoCall
    /\ written = <<>>
    /\ views = PySet({})
    /\ ever = {}
    /\ VIDEOS = <<>>
    /\ pc = "start"

\* the clock moves on
Tick(times) ==
    /\ \E t \in times : Minutes(t) > Minutes(now) /\ now' = t
    /\ UNCHANGED <<disk, apiKey, call, written, bucketVars, viewVars, replVars>>

InitStore ==
    /\ now = CHOOSE t \in Times : TRUE
    /\ Idle

Save(names) ==
    \E name \in names, data \in Records \cup {PyNone} :
        /\ disk' = save_cache(disk, name, data)
        /\ call' = [op |-> "save_cache", name |-> name]
        /\ written' = IF data # PyNone THEN WriteFile(written, name, data) ELSE written
        /\ UNCHANGED <<now, apiKey, bucketVars, viewVars, replVars>>

Load(names) ==
    \E name \in names, default \in Defaults :
        LET r == load_cache(disk, name, default)
        IN  /\ call' = [op |-> "load_cache", name |-> name, default |-> default,
                        isfile |-> isfile(disk, name),
                        bytes |-> IF isfile(disk, name) THEN disk[name] ELSE <<>>,
                        exc |-> r.exc, ret |-> r.val]
            /\ UNCHANGED <<now, disk, apiKey, written, bucketVars, viewVars, replVars>>

\* a file as it was saved is damaged from outside
Damage ==
    /\ \E name \in DOMAIN written :
         \E bytes \in Damaged(disk[name]) :
            /\ disk' = WriteFile(disk, name, bytes)
            /\ written' = Forget(written, name)
    /\ UNCHANGED <<now, apiKey, call, bucketVars, viewVars, replVars>>

NextStore == Save(StoreNames) \/ Load(StoreNames)

\* the store used by one process, its files touched by nothing else
SpecStore == InitStore /\ [][NextStore]_vars

NextDamage == Save({"view_history.pkl"}) \/ Load({"view_history.pkl"}) \/ Damage

\* one file of the store, which may be damaged between a save and a load
SpecDamage == InitStore /\ [][NextDamage]_vars

\* C1: a load of a file that exists and holds no valid pickle returns the
\* default it was given and raises nothing.
C1_LoadNeverRaisesOnDamage ==
    (/\ call.op = "load_cache"
     /\ call.isfile
     /\ load(call.bytes).exc # "none")
    => (call.exc = "none" /\ call.ret = call.default)

\* C6: a load of a name returns the record last saved under it, whatever was
\* there before and whatever was saved under other names since.
C6_RoundTrip ==
    (call.op = "load_cache" /\ call.name \in DOMAIN written)
    => (call.exc = "none" /\ call.ret = written[call.name])

\* both names have been saved, and a load returned the empty list saved under
\* one of them while the other holds a set
C6_Witness ==
    /\ call.op = "load_cache"
    /\ DOMAIN written = StoreNames
    /\ call.exc = "none"
    /\ call.ret = written[call.name]
    /\ call.ret = PyList(<<>>)
    /\ written[CHOOSE n \in StoreNames : n # call.name] = PySet({PyStr("a")})

(***************************************************************************)
(* LazyLoaded and ChannelUploads                                           *)
(***************************************************************************)
\* LazyLoaded.lazy: _api is None in every new instance, so API_KEY is opened
lazy(key) == IF key THEN Return(PyNone) ELSE Raise("FileNotFoundError")

\* what query.execute() can do: raise, or return a response that has no
\* 'items', or one whose 'items' is the given value
Raises == [kind |-> "raise"]
NoItems == [kind |-> "response", has_items |-> FALSE, items |-> PyNone]
Items(v) == [kind |-> "response", has_items |-> TRUE, items |-> v]

\* ChannelUploads.get with the cache test lost: it queries on every call
ChannelUploads_get_always(d, cache_name, force, key, resp) ==
    LET out(exc, val, dd, q) == [exc |-> exc, val |-> val, disk |-> dd, queried |-> q]
    IN  CHOOSE o \in
          { IF r.exc # "none" THEN out(r.exc, PyNone, d, FALSE)
            ELSE IF lazy(key).exc # "none" THEN out(lazy(key).exc, PyNone, d, FALSE)
            ELSE IF resp.kind = "raise" THEN out("HttpError", PyNone, d, TRUE)
            ELSE IF ~resp.has_items THEN out("KeyError", PyNone, d, TRUE)
            ELSE out("none", resp.items, save_cache(d, cache_name, resp.items), TRUE)
            : r \in {load_cache(d, cache_name, PyList(<<>>))} } : TRUE

\* ChannelUploads.get building the API client before it looks at the cache
ChannelUploads_get_eager(d, cache_name, force, key, resp) ==
    LET out(exc, val, dd, q) == [exc |-> exc, val |-> val, disk |-> dd, queried |-> q]
    IN  CHOOSE o \in
          { IF r.exc # "none" THEN out(r.exc, PyNone, d, FALSE)
            ELSE IF lazy(key).exc # "none" THEN out(lazy(key).exc, PyNone, d, FALSE)
            ELSE IF ~(Falsy(r.val) \/ force) THEN out("none", r.val, d, FALSE)
            ELSE IF resp.kind = "raise" THEN out("HttpError", PyNone, d, TRUE)
            ELSE IF ~resp.has_items THEN out("KeyError", PyNone, d, TRUE)
            ELSE out("none", resp.items, save_cache(d, cache_name, resp.items), TRUE)
            : r \in {load_cache(d, cache_name, PyList(<<>>))} } : TRUE

\* ChannelUploads.get: what it returns or raises, the directory afterwards,
\* and whether query.execute() was called
ChannelUploads_get(d, cache_name, force, key, resp) ==
    LET out(exc, val, dd, q) == [exc |-> exc, val |-> val, disk |-> dd, queried |-> q]
    IN  CHOOSE o \in
          { IF r.exc # "none" THEN out(r.exc, PyNone, d, FALSE)
            ELSE IF ~(Falsy(r.val) \/ force) THEN out("none", r.val, d, FALSE)
            ELSE IF lazy(key).exc # "none" THEN out(lazy(key).exc, PyNone, d, FALSE)
            ELSE IF resp.kind = "raise" THEN out("HttpError", PyNone, d, TRUE)
            ELSE IF ~resp.has_items THEN out("KeyError", PyNone, d, TRUE)
            ELSE out("none", resp.items, save_cache(d, cache_name, resp.items), TRUE)
            : r \in {load_cache(d, cache_name, PyList(<<>>))} } : TRUE

(***************************************************************************)
(* Upload fetches of one channel over time, with the credential file       *)
(* coming and going.                                                       *)
(***************************************************************************)
FetchTimes ==
    { [Y |-> 2024, m |-> 1, d |-> 1, H |-> 0, M |-> 0],
      [Y |-> 2024, m |-> 1, d |-> 1, H |-> 10, M |-> 0] }

FetchGranularities == {"d", "h"}

UploadLists ==
    { PyList(<<>>), PyList(<<PyStr("a")>>), PyList(<<PyStr("b"), PyStr("a")>>) }

\* an object where the list of items should be
Malformed == PyDict({[k |-> PyStr("a"), v |-> PyStr("b")]})

Responses ==
    {Raises, NoItems, Items(PyNone), Items(Malformed)} \cup {Items(l) : l \in UploadLists}

\* the query failed: it raised, or its response has no usable list of items
Failed(resp) ==
    resp.kind = "raise" \/ ~resp.has_items \/ resp.items.type # "list"

InitFetch ==
    /\ now = [Y |-> 2024, m |-> 1, d |-> 1, H |-> 0, M |-> 0]
    /\ Idle

\* the call before this one, if it was a get(force=False) for the same channel
\* and bucket key
Prior(channel_id, stamp) ==
    IF call.op = "get" /\ call.channel_id = channel_id /\ call.stamp = stamp
       /\ ~call.force
    THEN [op |-> "get", exc |-> call.exc, ret |-> call.ret, queried |-> call.queried]
    ELSE NoCall

\* get_videos up to ChannelUploads(...).get(force) for one subscription
Get ==
    \E cl \in FetchGranularities, force \in BOOLEAN, resp \in Responses :
      \E stamp \in {timestamp(cl, now)} :
        \E name \in {ChannelUploads_cache_name("UCx", stamp)} :
          \E r \in {ChannelUploads_get(disk, name, force, apiKey, resp)} :
            /\ disk' = r.disk
            /\ call' = [op |-> "get", channel_id |-> "UCx", stamp |-> stamp,
                        name |-> name, force |-> force, key |-> apiKey,
                        resp |-> resp, before |-> disk,
                        exc |-> r.exc, ret |-> r.val, queried |-> r.queried,
                        prior |-> Prior("UCx", stamp)]
            /\ written' = IF r.queried /\ r.exc = "none" /\ r.val # PyNone
                          THEN WriteFile(written, name, r.val)
                          ELSE written
            /\ UNCHANGED <<now, apiKey, bucketVars, viewVars, replVars>>

\* the file API_KEY is removed or put back
Credential ==
    /\ apiKey' = ~apiKey
    /\ UNCHANGED <<now, disk, call, written, bucketVars, viewVars, replVars>>

NextFetch == Get \/ Tick(FetchTimes) \/ Credential

SpecFetch == InitFetch /\ [][NextFetch]_vars

NonEmptyList(v) == v.type = "list" /\ v.seq # <<>>

\* C2 as stated: of two consecutive get(force=False) for one channel and bucket
\* key, the first having returned a list (empty or not), at most one queried.
C2_AtMostOneQuery ==
    (/\ call.op = "get" /\ ~call.force
     /\ call.prior.op = "get"
     /\ call.prior.exc = "none"
     /\ call.prior.ret.type = "list")
    => ~(call.prior.queried /\ call.queried)

\* C2 amended: the same, the first having returned a list that is not empty.
C2_AtMostOneQueryNonEmpty ==
    (/\ call.op = "get" /\ ~call.force
     /\ call.prior.op = "get"
     /\ call.prior.exc = "none"
     /\ NonEmptyList(call.prior.ret))
    => ~(call.prior.queried /\ call.queried)

\* the first call queried and got a list, the second returned it from the cache
C2_Witness ==
    /\ call.op = "get" /\ ~call.force
    /\ call.prior.op = "get"
    /\ call.prior.queried
    /\ NonEmptyList(call.prior.ret)
    /\ ~call.queried
    /\ call.exc = "none"
    /\ call.ret = call.prior.ret

\* C7: a get whose query failed leaves the cache directory as it was.
C7_FailedFetchWritesNothing ==
    (call.op = "get" /\ call.queried /\ Failed(call.resp))
    => disk = call.before

\* an upload list that is not empty is cached in the directory
HasCachedList(d) ==
    \E n \in DOMAIN d : \E r \in {load(d[n])} : r.exc = "none" /\ NonEmptyList(r.val)

\* C10 as stated: with API_KEY missing, once an upload list of the channel is
\* cached a get(force=False) raises nothing, at any later time.  (Taken for
\* the lists that are not empty, which is the least the statement says.)
C10_CachedServedOffline ==
    (call.op = "get" /\ ~call.force /\ ~call.key /\ HasCachedList(call.before))
    => call.exc = "none"

\* C10 amended: with API_KEY missing, a get(force=False) returns the list cached
\* under the file name the current time gives, if there is one and it is not
\* empty, and calls nothing.
C10_CachedServedWithinBucket ==
    (/\ call.op = "get" /\ ~call.force /\ ~call.key
     /\ call.name \in DOMAIN call.before
     /\ NonEmptyList(load(call.before[call.name]).val))
    => (/\ call.exc = "none"
        /\ call.ret = load(call.before[call.name]).val
        /\ ~call.queried)

\* the list cached at midnight under the day key is served at ten without API_KEY
C10_Witness ==
    /\ call.op = "get" /\ ~call.force /\ ~call.key
    /\ now.H = 10
    /\ call.stamp = "20240101"
    /\ call.exc = "none"
    /\ call.ret = PyList(<<PyStr("b"), PyStr("a")>>)

(***************************************************************************)
(* ViewHistory and Actions                                                 *)
(***************************************************************************)
\* ViewHistory.add: the set in memory and the directory afterwards
ViewHistory_add(d, vs, video_id) ==
    IF vs.type # "set" THEN [exc |-> "AttributeError", views |-> vs, disk |-> d]
    ELSE LET added == PySet(vs.elems \cup {PyStr(video_id)})
         IN  [exc |-> "none", views |-> added,
              disk |-> save_cache(d, "view_history.pkl", added)]

\* ViewHistory.get: what it returns or raises; self.views is what it returns
ViewHistory_get(d) == load_cache(d, "view_history.pkl", PySet({}))

\* the video ids in the persisted view set
Persisted(d) ==
    UNION { IF r.exc = "none" /\ r.val.type = "set" THEN {e.s : e \in r.val.elems}
            ELSE {}
            : r \in {ViewHistory_get(d)} }

\* what an action did: ran its command or not, raised or not, called VIEWS.add
\* or not, and the set in memory and the directory afterwards
Acted(performed, exc, added, vs, d) ==
    [performed |-> performed, exc |-> exc, added |-> added, views |-> vs, disk |-> d]

\* Actions.mark_as_watched
Actions_mark_as_watched(d, vs, video_id) ==
    LET a == ViewHistory_add(d, vs, video_id)
    IN  Acted(a.exc = "none", a.exc, TRUE, a.views, a.disk)

\* Actions.download; env.youtube_dl is which('youtube-dl')
Actions_download(d, vs, video_id, env) ==
    Acted(env.youtube_dl, "none", FALSE, vs, d)

\* Actions.rip_audio
Actions_rip_audio(d, vs, video_id, env) ==
    Acted(env.youtube_dl, "none", FALSE, vs, d)

\* open_in_browser that forgets to mark the video as watched
Actions_open_in_browser_unmarked(d, vs, video_id, env) ==
    IF ~env.posix \/ ~env.pidof THEN Acted(FALSE, "none", FALSE, vs, d)
    ELSE IF env.browser # "firefox" THEN Acted(FALSE, "TypeError", FALSE, vs, d)
    ELSE Acted(TRUE, "none", FALSE, vs, d)

\* Actions.open_in_browser, once the browser process is there; env.posix is
\* os.name == 'posix', env.pidof is which('pidof'), env.browser is BROWSER.
\* For a browser that new_tab_cmd does not list, '#' % url raises TypeError.
Actions_open_in_browser(d, vs, video_id, env) ==
    IF ~env.posix \/ ~env.pidof THEN Acted(FALSE, "none", FALSE, vs, d)
    ELSE IF env.browser # "firefox" THEN Acted(FALSE, "TypeError", FALSE, vs, d)
    ELSE LET m == Actions_mark_as_watched(d, vs, video_id)
         IN  Acted(TRUE, m.exc, TRUE, m.views, m.disk)

(***************************************************************************)
(* The view history over actions and restarts of the process.              *)
(***************************************************************************)
Envs ==
    [youtube_dl : BOOLEAN, posix : BOOLEAN, pidof : BOOLEAN,
     browser : {"firefox", "chromium"}]

InitViews ==
    /\ now = CHOOSE t \in Times : TRUE
    /\ Idle

\* a new process: VIEWS = ViewHistory()
Restart ==
    /\ views' = PySet({})
    /\ UNCHANGED <<now, disk, apiKey, call, written, ever, bucketVars, replVars>>

\* VIEWS.get()
ViewsGet ==
    \E r \in {ViewHistory_get(disk)} :
        /\ views' = IF r.exc = "none" THEN r.val ELSE views
        /\ call' = [op |-> "ViewHistory.get", exc |-> r.exc, ret |-> r.val]
        /\ UNCHANGED <<now, disk, apiKey, written, ever, bucketVars, replVars>>

\* the state after an action on a video
Does(op, video_id, a) ==
    /\ views' = a.views
    /\ disk' = a.disk
    /\ ever' = ever \cup Persisted(a.disk)
    /\ call' = [op |-> op, id |-> video_id, performed |-> a.performed,
                exc |-> a.exc, added |-> a.added, before |-> disk]
    /\ UNCHANGED <<now, apiKey, written, bucketVars, replVars>>

MarkAsWatched ==
    \E video_id \in Atoms :
        Does("mark_as_watched", video_id, Actions_mark_as_watched(disk, views, video_id))

Download ==
    \E video_id \in Atoms, env \in Envs :
        Does("download", video_id, Actions_download(disk, views, video_id, env))

RipAudio ==
    \E video_id \in Atoms, env \in Envs :
        Does("rip_audio", video_id, Actions_rip_audio(disk, views, video_id, env))

OpenInBrowser ==
    \E video_id \in Atoms, env \in Envs :
        Does("open_in_browser", video_id,
             Actions_open_in_browser(disk, views, video_id, env))

NextViews ==
    Restart \/ ViewsGet \/ MarkAsWatched \/ Download \/ RipAudio \/ OpenInBrowser

SpecViews == InitViews /\ [][NextViews]_vars

\* C3: every video id that was once in the persisted view set is in it still.
C3_AppendOnly == ever \subseteq Persisted(disk)

\* C9 as stated: after a download, an audio rip or an opening in the browser
\* that was carried out, the video's id is in the persisted view set.
C9_EveryActionMarks ==
    (call.op \in {"download", "rip_audio", "open_in_browser"} /\ call.performed)
    => (call.added /\ call.id \in Persisted(disk))

\* C9 amended: an opening in the browser that was carried out calls VIEWS.add
\* and leaves the id in the persisted view set; a download and an audio rip
\* never call VIEWS.add and leave the directory as it was.
C9_OnlyOpeningMarks ==
    /\ (call.op = "open_in_browser" /\ call.performed)
        => (call.added /\ call.id \in Persisted(disk))
    /\ call.op \in {"download", "rip_audio"}
        => (~call.added /\ disk = call.before)

\* a video not yet in the view set was opened in the browser and is in it now
C9_Witness ==
    /\ call.op = "open_in_browser" /\ call.performed
    /\ call.id \notin Persisted(call.before)
    /\ call.id \in Persisted(disk)

(***************************************************************************)
(* ChannelID, VideoDetails, Video and get_videos                           *)
(***************************************************************************)
\* dict.get(key, None) on the items of a dict
DictGet(items, k) ==
    IF \E it \in items : it.k = k THEN (CHOOSE it \in items : it.k = k).v ELSE PyNone

\* ChannelID.get with the save of the mapping lost: it returns the id it
\* found and leaves channel_ids.pkl as it was
ChannelID_get_unsaved(d, username, key, resp) ==
    LET out(exc, val, dd, q) == [exc |-> exc, val |-> val, disk |-> dd, queried |-> q]
    IN  CHOOSE o \in
          { IF r.exc # "none" THEN out(r.exc, PyNone, d, FALSE)
            ELSE IF r.val.type # "dict" THEN out("AttributeError", PyNone, d, FALSE)
            ELSE IF DictGet(r.val.items, PyStr(username)) # PyNone
                 THEN out("none", DictGet(r.val.items, PyStr(username)), d, FALSE)
            ELSE IF lazy(key).exc # "none" THEN out(lazy(key).exc, PyNone, d, FALSE)
            ELSE IF resp.kind = "raise" THEN out("HttpError", PyNone, d, TRUE)
            ELSE IF ~resp.has_items THEN out("KeyError", PyNone, d, TRUE)
            ELSE IF resp.items.type # "list" THEN out("TypeError", PyNone, d, TRUE)
            ELSE IF resp.items.seq = <<>> THEN out("IndexError", PyNone, d, TRUE)
            ELSE out("none", resp.items.seq[Len(resp.items.seq)], d, TRUE)
            : r \in {load_cache(d, "channel_ids.pkl", PyDict({}))} } : TRUE

\* ChannelID.get: the channel id of a user name, from channel_ids.pkl or from
\* one query whose last item carries the id
ChannelID_get(d, username, key, resp) ==
    LET out(exc, val, dd, q) == [exc |-> exc, val |-> val, disk |-> dd, queried |-> q]
    IN  CHOOSE o \in
          { IF r.exc # "none" THEN out(r.exc, PyNone, d, FALSE)
            ELSE IF r.val.type # "dict" THEN out("AttributeError", PyNone, d, FALSE)
            ELSE IF DictGet(r.val.items, PyStr(username)) # PyNone
                 THEN out("none", DictGet(r.val.items, PyStr(username)), d, FALSE)
            ELSE IF lazy(key).exc # "none" THEN out(lazy(key).exc, PyNone, d, FALSE)
            ELSE IF resp.kind = "raise" THEN out("HttpError", PyNone, d, TRUE)
            ELSE IF ~resp.has_items THEN out("KeyError", PyNone, d, TRUE)
            ELSE IF resp.items.type # "list" THEN out("TypeError", PyNone, d, TRUE)
            ELSE IF resp.items.seq = <<>> THEN out("IndexError", PyNone, d, TRUE)
            ELSE LET found == resp.items.seq[Len(resp.items.seq)]
                 IN  out("none", found,
                         save_cache(d, "channel_ids.pkl",
                                    PyDict(DictSet(r.val.items, PyStr(username), found))),
                         TRUE)
            : r \in {load_cache(d, "channel_ids.pkl", PyDict({}))} } : TRUE

\* VideoDetails.__init__: the cache file name, the timestamp left at ''
VideoDetails_cache_name(video_id) == video_id \o "." \o ljust("", 10, "0") \o ".pkl"

\* VideoDetails.get
VideoDetails_get(d, cache_name, force, key, resp) ==
    LET out(exc, val, dd, q) == [exc |-> exc, val |-> val, disk |-> dd, queried |-> q]
    IN  CHOOSE o \in
          { IF r.exc # "none" THEN out(r.exc, PyNone, d, FALSE)
            ELSE IF ~(Falsy(r.val) \/ force) THEN out("none", r.val, d, FALSE)
            ELSE IF lazy(key).exc # "none" THEN out(lazy(key).exc, PyNone, d, FALSE)
            ELSE IF resp.kind = "raise" THEN out("HttpError", PyNone, d, TRUE)
            ELSE IF ~resp.has_items THEN out("KeyError", PyNone, d, TRUE)
            ELSE out("none", resp.items, save_cache(d, cache_name, resp.items), TRUE)
            : r \in {load_cache(d, cache_name, PyList(<<>>))} } : TRUE

\* Video.__init__ for an upload whose snippet names video item.s; the channel
\* title is taken to be the user name of the subscription
Video(d, vs, item, user, key, resp) ==
    LET out(exc, video, vv, dd) ==
            [exc |-> exc, video |-> video, views |-> vv, disk |-> dd]
        video(seen) == [id |-> item.s, channel |-> user,
                        viewed |-> PyStr(item.s) \in seen.val.elems]
    IN  CHOOSE o \in
          { IF seen.exc # "none" THEN out(seen.exc, PyNone, vs, d)
            ELSE IF seen.val.type \notin {"set", "list"}
                 THEN out("TypeError", PyNone, seen.val, d)
            ELSE CHOOSE o2 \in
              { IF det.exc # "none" THEN out(det.exc, PyNone, seen.val, det.disk)
                ELSE IF det.val.type # "list"
                     THEN out("TypeError", PyNone, seen.val, det.disk)
                ELSE IF det.val.seq = <<>>
                     THEN out("IndexError", PyNone, seen.val, det.disk)
                ELSE out("none", video(seen), seen.val, det.disk)
                : det \in {VideoDetails_get(d, VideoDetails_cache_name(item.s),
                                            FALSE, key, resp)} } : TRUE
            : seen \in {ViewHistory_get(d)} } : TRUE

\* the state get_videos carries along: directory, VIEWS.views, videos yielded
Carried(d, vs, videos) == [disk |-> d, views |-> vs, videos |-> videos]
Stopped(exc, failed, st) ==
    [exc |-> exc, failed |-> failed, disk |-> st.disk, views |-> st.views,
     videos |-> st.videos]

RECURSIVE YieldVideos(_, _, _, _, _, _, _)
\* get_videos: the loop over the uploads of one subscription; v is the Video
\* constructed, bound once as the loop's local is
YieldVideos(items, count, num, user, key, dets, st) ==
    IF items = <<>> \/ count = num THEN Stopped("none", 0, st)
    ELSE CHOOSE r \in
           { IF v.exc # "none"
             THEN Stopped(v.exc, 0, Carried(v.disk, v.views, st.videos))
             ELSE YieldVideos(Tail(items), count + 1, num, user, key, dets,
                              Carried(v.disk, v.views, Append(st.videos, v.video)))
             : v \in {Video(st.disk, st.views, Head(items), user, key,
                            dets[Head(items).s])} } : TRUE

\* the users that have the shape of a channel id: 'UC' and 24 characters
LiteralIds == {"UCxxxxxxxxxxxxxxxxxxxxxx", "UCzzzzzzzzzzzzzzzzzzzzzz"}

\* get_videos: the channel id of subscription i
SubscriptionId(user, key, env, st) ==
    IF user \in LiteralIds
    THEN [exc |-> "none", val |-> PyStr(user), disk |-> st.disk]
    ELSE ChannelID_get(st.disk, user, key, env.ids[user])

RECURSIVE get_videos(_, _, _, _, _, _, _)
\* get_videos from subscription i on; env.ids, env.ups and env.dets are what
\* the queries for a user's id, for the uploads of subscription i and for the
\* details of a video do.  Returns what was yielded, and the exception that
\* ended the generator with the subscription it came from, if any.  The locals
\* id (the channel id), up (the uploads) and vids (the videos yielded) are
\* each computed once.
get_videos(i, subscriptions, force, t, key, env, st) ==
    IF i > Len(subscriptions) THEN Stopped("none", 0, st)
    ELSE
    LET cl == subscriptions[i][1]
        num == subscriptions[i][2]
        user == subscriptions[i][3]
    IN  CHOOSE r \in
      { IF id.exc # "none"
        THEN Stopped(id.exc, i, Carried(id.disk, st.views, st.videos))
        ELSE CHOOSE r2 \in
          { IF up.exc # "none"
            THEN Stopped(up.exc, i, Carried(up.disk, st.views, st.videos))
            ELSE IF up.val.type = "dict" /\ up.val.items = {}
            THEN get_videos(i + 1, subscriptions, force, t, key, env,
                            Carried(up.disk, st.views, st.videos))
            ELSE IF up.val.type # "list"
            THEN Stopped("TypeError", i, Carried(up.disk, st.views, st.videos))
            ELSE CHOOSE r3 \in
              { IF vids.exc # "none" THEN Stopped(vids.exc, i, vids)
                ELSE get_videos(i + 1, subscriptions, force, t, key, env,
                                Carried(vids.disk, vids.views, vids.videos))
                : vids \in {YieldVideos(up.val.seq, 0, num, user, key, env.dets,
                                Carried(up.disk, st.views, st.videos))} } : TRUE
            : up \in {ChannelUploads_get(id.disk,
                         ChannelUploads_cache_name(id.val.s, timestamp(cl, t)),
                         force, key, env.ups[i])} } : TRUE
        : id \in {SubscriptionId(user, key, env, st)} } : TRUE

(***************************************************************************)
(* The process: VIDEOS = list(get_videos(parse_config_file())) at the      *)
(* start and on fetch; an exception that nothing catches ends the process. *)
(***************************************************************************)
\* parse_config_file(): the lines of subscriptions.conf, [cl, num, user]
Subscriptions ==
    << <<"d", 1, "UCxxxxxxxxxxxxxxxxxxxxxx">>,
       <<"h", 1, "someuser">>,
       <<"d", 1, "UCzzzzzzzzzzzzzzzzzzzzzz">> >>

BatchEnvs ==
    [ids  : [{"someuser"} -> {Raises, Items(PyList(<<PyStr("UCyyyyyyyyyyyyyyyyyyyyyy")>>))}],
     ups  : [1..Len(Subscriptions) -> {Raises, NoItems, Items(PyList(<<PyStr("a")>>))}],
     dets : [{"a"} -> {Raises, Items(PyList(<<PyStr("b")>>))}]]

InitBatch ==
    /\ now = [Y |-> 2024, m |-> 1, d |-> 1, H |-> 10, M |-> 0]
    /\ Idle

\* what get_videos yields for subscription j taken alone
Alone(j, force, env) ==
    CHOOSE o \in
      { [exc |-> r.exc, videos |-> r.videos]
        : r \in {get_videos(1, <<Subscriptions[j]>>, force, now, apiKey,
                            [env EXCEPT !.ups = <<env.ups[j]>>],
                            Carried(disk, views, <<>>))} } : TRUE

\* the start of the process, or the commands fetch and fetch force
Fetch ==
    /\ pc \in {"start", "repl"}
    /\ \E force \in BOOLEAN, env \in BatchEnvs :
        /\ pc = "start" => ~force
        /\ \E r \in {get_videos(1, Subscriptions, force, now, apiKey, env,
                                Carried(disk, views, <<>>))} :
            /\ disk' = r.disk
            /\ views' = r.views
            /\ VIDEOS' = IF r.exc = "none" THEN r.videos ELSE VIDEOS
            /\ pc' = IF r.exc = "none" THEN "repl" ELSE "dead"
            /\ call' = [op |-> "get_videos", force |-> force, exc |-> r.exc,
                        failed |-> r.failed,
                        alone |-> [j \in 1..Len(Subscriptions) |->
                                      Alone(j, force, env)]]
    /\ UNCHANGED <<now, apiKey, written, ever, bucketVars>>

\* the program is started again
Startup ==
    /\ pc = "dead"
    /\ pc' = "start"
    /\ VIDEOS' = <<>>
    /\ views' = PySet({})
    /\ UNCHANGED <<now, disk, apiKey, call, written, ever, bucketVars>>

Quit ==
    /\ pc = "repl"
    /\ pc' = "dead"
    /\ UNCHANGED <<now, disk, apiKey, call, written, views, ever, VIDEOS, bucketVars>>

NextBatch == Fetch \/ Startup \/ Quit \/ Credential

SpecBatch == InitBatch /\ [][NextBatch]_vars

\* C4: when get_videos fails at one subscription, the videos that each other
\* subscription yields when taken alone are in VIDEOS.
C4_FailureIsolated ==
    (call.op = "get_videos" /\ call.exc # "none")
    => \A j \in 1..Len(Subscriptions) \ {call.failed} :
          call.alone[j].exc = "none"
          => \A k \in 1..Len(call.alone[j].videos) :
                \E n \in 1..Len(VIDEOS) : VIDEOS[n] = call.alone[j].videos[k]

(***************************************************************************)
(* Bucket keys over time: the clock advances, get_videos computes a key.   *)
(***************************************************************************)
InitBucket ==
    /\ now \in Times
    /\ Idle

ComputeKey ==
    /\ \E cl \in Granularities : cur' = Stamp(cl, now)
    /\ prev' = cur
    /\ UNCHANGED <<now, disk, apiKey, call, written, viewVars, replVars>>

NextBucket == Tick(Times) \/ ComputeKey

SpecBucket == InitBucket /\ [][NextBucket]_vars

\* the bucket a time falls in, from the calendar alone
SameBucket(cl, t, u) ==
    LET day == <<t.Y, t.m, t.d>> = <<u.Y, u.m, u.d>>
    IN  CASE cl = "h" -> day /\ t.H = u.H
          [] cl = "d" -> day
          [] cl = "w" -> t.Y = u.Y /\ WeekOfYear(t) = WeekOfYear(u)
          [] cl = "m" -> t.Y = u.Y /\ t.m = u.m
          [] cl = "y" -> t.Y = u.Y
          [] OTHER    -> day /\ t.H \div 4 = u.H \div 4

\* C5: two bucket keys that differ give cache file names that differ, for one
\* channel, whatever the granularities they were computed for.
C5_DistinctKeysDistinctFiles ==
    (prev # NoStamp /\ cur # NoStamp /\ prev.key # cur.key)
    => prev.file # cur.file

\* C8: for one granularity, two times have the same key exactly when they are
\* in the same bucket (the same hour, day, numbered week, month, year or
\* four-hour slot).
C8_KeyFollowsBucket ==
    (prev # NoStamp /\ cur # NoStamp /\ prev.cl = cur.cl)
    => (prev.key = cur.key <=> SameBucket(cur.cl, prev.at, cur.at))

(***************************************************************************)
(* Resolving user names: SUBSCRIPTIONS.get(user) over time, for two user   *)
(* names, with the credential file coming and going.                       *)
(***************************************************************************)
\* the user names of subscriptions.conf that are not channel ids
Usernames == {"someuser", "otheruser"}

\* what the channels().list query can do: raise, return no 'items', an empty
\* list of items, or items of which the last carries the id
IdResponses ==
    { Raises, NoItems, Items(PyList(<<>>)),
      Items(PyList(<<PyStr("a")>>)), Items(PyList(<<PyStr("a"), PyStr("b")>>)) }

InitResolve ==
    /\ now = [Y |-> 2024, m |-> 1, d |-> 1, H |-> 0, M |-> 0]
    /\ Idle

\* the call before this one, if it was ChannelID.get for the same user name
PriorId(username) ==
    IF call.op = "ChannelID.get" /\ call.username = username
    THEN [op |-> "ChannelID.get", exc |-> call.exc, ret |-> call.ret,
          queried |-> call.queried]
    ELSE NoCall

\* get_videos: channel_id = SUBSCRIPTIONS.get(user)
SubscriptionsGet ==
    \E username \in Usernames, resp \in IdResponses :
      \E r \in {ChannelID_get(disk, username, apiKey, resp)} :
        /\ disk' = r.disk
        /\ call' = [op |-> "ChannelID.get", username |-> username,
                    key |-> apiKey, resp |-> resp, before |-> disk,
                    exc |-> r.exc, ret |-> r.val, queried |-> r.queried,
                    prior |-> PriorId(username)]
        /\ UNCHANGED <<now, apiKey, written, bucketVars, viewVars, replVars>>

NextResolve == SubscriptionsGet \/ Credential

SpecResolve == InitResolve /\ [][NextResolve]_vars

\* C11: of two consecutive ChannelID.get for one user name, the first having
\* returned, at most one queried: the second queries nothing, leaves the cache
\* directory as it was and returns what the first returned.
C11_SecondIsCacheHit ==
    (/\ call.op = "ChannelID.get"
     /\ call.prior.op = "ChannelID.get"
     /\ call.prior.exc = "none")
    => (/\ ~call.queried
        /\ disk = call.before
        /\ call.exc = "none"
        /\ call.ret = call.prior.ret)

\* the first call queried and got id b; the second, for which the query would
\* have given a, returned b from the cache
C11_Witness ==
    /\ call.op = "ChannelID.get"
    /\ call.prior.op = "ChannelID.get"
    /\ call.prior.queried
    /\ call.prior.ret = PyStr("b")
    /\ call.resp = Items(PyList(<<PyStr("a")>>))
    /\ ~call.queried
    /\ call.ret = PyStr("b")
    /\ disk = call.before

====
